---- MODULE Spec2Model ----
(***************************************************************************)
(* Model of src/stock_analyzer.py: the StockDataOperator class (provider   *)
(* fetch, metric derivation, valuation assessment), display_results and    *)
(* main.                                                                   *)
(*                                                                         *)
(* Python values are tagged records: None, Num(n), Frame(rows), List(xs).  *)
(* A raised exception is the value Raise(kind).  Truthiness, `or` and      *)
(* `and` follow Python: None, 0 and the empty list are falsy.              *)
(*                                                                         *)
(* Prices are integers; the float thresholds 0.95 and 1.05 are kept as     *)
(* percentages and compared after scaling both sides by 100, which is      *)
(* exact for the prices used here (20 * 0.95 = 19.0 and 20 * 1.05 = 21.0   *)
(* in IEEE double arithmetic).                                             *)
(***************************************************************************)
EXTENDS Integers, Sequences, FiniteSets

VARIABLES
    market,   \* what the provider (yf.Ticker) holds: info fields and 1wk history
    self,     \* the StockDataOperator instance, None before construction
    ret,      \* the value of the last get_all_metrics call (or NotCalled)
    screen,   \* what the last handler did on the page: widgets and how it ended
    last,     \* the last operation, how the provider behaved in it, and how it
              \* behaved in the call before on the same instance
    calls     \* number of get_all_metrics calls made on the current instance

vars == <<market, self, ret, screen, last, calls>>

-----------------------------------------------------------------------------
(* Bounds *)

MaxPoints == 2    \* longest 1wk history drawn
MaxCalls == 2     \* get_all_metrics calls per instance

-----------------------------------------------------------------------------
(* Python values *)

None == [t |-> "None"]
Num(n) == [t |-> "num", v |-> n]
Frame(rows) == [t |-> "frame", rows |-> rows]
Raise(kind) == [t |-> "raise", exc |-> kind]
List(items) == [t |-> "list", items |-> items]
NotCalled == [t |-> "notcalled"]

IsNone(x) == x.t = "None"
IsRaise(x) == x.t = "raise"

\* bool(x) for the values that reach a truth test
Truthy(x) ==
    CASE x.t = "None" -> FALSE
      [] x.t = "num" -> x.v # 0
      [] x.t = "list" -> x.items # <<>>
      [] OTHER -> TRUE

\* a or b
PyOr(a, b) == IF Truthy(a) THEN a ELSE b

-----------------------------------------------------------------------------
(* Input domains *)

OptNum(S) == {None} \cup {Num(n) : n \in S}

InfoFields ==
    {"currentPrice", "regularMarketPreviousClose", "fiftyTwoWeekHigh",
     "fiftyTwoWeekLow", "averageVolume", "trailingPE"}

Infos ==
    [currentPrice : OptNum({0, 19, 21}),
     regularMarketPreviousClose : OptNum({0, 20}),
     fiftyTwoWeekHigh : OptNum({0, 20}),
     fiftyTwoWeekLow : OptNum({0, 20}),
     averageVolume : OptNum({7}),
     trailingPE : OptNum({-1, 0, 14, 15, 35, 36})]

Volumes == {0, 3}

RECURSIVE SeqsUpTo(_, _)
SeqsUpTo(S, n) ==
    IF n = 0 THEN {<<>>}
    ELSE LET shorter == SeqsUpTo(S, n - 1)
         IN shorter \cup {Append(s, x) : s \in {q \in shorter : Len(q) = n - 1}, x \in S}

Histories == SeqsUpTo(Volumes, MaxPoints)

\* symbols a caller may construct an instance with
CallerSymbols == {"BEL", "bel", "Bel"}

\* position of the ticker list the selectbox is followed to (BEL); the symbol
\* reaches nothing but the record's ticker field and the page header
Selectable == {3}

FetchModes == {"ok", "info_raises", "history_raises"}

-----------------------------------------------------------------------------
(* Thresholds *)

PE_UNDERVALUED == 15
PE_OVERVALUED == 35
HIGH_THRESHOLD_PCT == 95
LOW_THRESHOLD_PCT == 105

UNDERVALUED == "Undervalued (P/E < 15)"
OVERVALUED == "Overvalued (P/E > 35)"
FAIR == "Fair Valuation"
NEAR_HIGH == "Near 52-week High"
NEAR_LOW == "Near 52-week Low"
NO_ALERTS == "No significant alerts"

-----------------------------------------------------------------------------
(* StockDataOperator *)

\* str.upper() on the symbols drawn here; the list entries are upper case already
Upper(s) ==
    CASE s = "bel" -> "BEL"
      [] s = "Bel" -> "BEL"
      [] OTHER -> s

\* __init__
StockDataOperator(ticker) ==
    [t |-> "obj",
     ticker |-> <<Upper(ticker), ".NS">>,
     info |-> None,
     historical_data |-> None]

\* dict.get(key): the value, None when the key is absent
Get(info, key) == info[key]

\* variant: the fetched history is appended to the one the instance holds
fetch_data_appending(obj, stock, mode) ==
    IF mode = "info_raises"
    THEN [ok |-> FALSE, obj |-> obj, out |-> <<[w |-> "error", text |-> "Data fetch failed"]>>]
    ELSE IF mode = "history_raises"
    THEN [ok |-> FALSE,
          obj |-> [obj EXCEPT !.info = stock.info],
          out |-> <<[w |-> "error", text |-> "Data fetch failed"]>>]
    ELSE [ok |-> TRUE,
          obj |-> [obj EXCEPT !.info = stock.info,
                              !.historical_data =
                                  IF IsNone(obj.historical_data) THEN Frame(stock.history)
                                  ELSE Frame(obj.historical_data.rows \o stock.history)],
          out |-> <<>>]

fetch_data(obj, stock, mode) ==
    IF mode = "info_raises"
    THEN [ok |-> FALSE, obj |-> obj, out |-> <<[w |-> "error", text |-> "Data fetch failed"]>>]
    ELSE IF mode = "history_raises"
    THEN [ok |-> FALSE,
          obj |-> [obj EXCEPT !.info = stock.info],
          out |-> <<[w |-> "error", text |-> "Data fetch failed"]>>]
    ELSE [ok |-> TRUE,
          obj |-> [obj EXCEPT !.info = stock.info,
                              !.historical_data = Frame(stock.history)],
          out |-> <<>>]

\* variant: no fallback to the previous close
get_current_price_no_fallback(obj) == Get(obj.info, "currentPrice")

get_current_price(obj) ==
    PyOr(Get(obj.info, "currentPrice"), Get(obj.info, "regularMarketPreviousClose"))

RECURSIVE Sum(_)
Sum(s) == IF s = <<>> THEN 0 ELSE s[1] + Sum(Tail(s))

\* variant: a total of 0 is reported as None
calculate_weekly_volume_falsy_total(obj) ==
    IF ~IsNone(obj.historical_data) /\ obj.historical_data.rows # <<>>
    THEN PyOr(Num(Sum(obj.historical_data.rows)), None)
    ELSE None

calculate_weekly_volume(obj) ==
    IF ~IsNone(obj.historical_data) /\ obj.historical_data.rows # <<>>
    THEN Num(Sum(obj.historical_data.rows))
    ELSE None

\* current and high and current >= high * threshold, as the truth value the
\* caller tests; the comparison is reached only when both operands are truthy
near_52_week_high(obj) ==
    LET high == Get(obj.info, "fiftyTwoWeekHigh")
        current == get_current_price(obj)
    IN  IF ~Truthy(current) THEN FALSE
        ELSE IF ~Truthy(high) THEN FALSE
        ELSE current.v * 100 >= high.v * HIGH_THRESHOLD_PCT

near_52_week_low(obj) ==
    LET low == Get(obj.info, "fiftyTwoWeekLow")
        current == get_current_price(obj)
    IN  IF ~Truthy(current) THEN FALSE
        ELSE IF ~Truthy(low) THEN FALSE
        ELSE current.v * 100 <= low.v * LOW_THRESHOLD_PCT

\* the if/elif/else on pe; comparing None with a number raises TypeError
pe_label(pe) ==
    IF IsNone(pe) THEN Raise("TypeError")
    ELSE IF pe.v < PE_UNDERVALUED THEN List(<<UNDERVALUED>>)
    ELSE IF pe.v > PE_OVERVALUED THEN List(<<OVERVALUED>>)
    ELSE List(<<FAIR>>)

\* variant: the fallback label is appended whatever the rules emitted
get_valuation_assessment_always_fallback(obj) ==
    LET pe == Get(obj.info, "trailingPE")
        first == IF Truthy(pe) THEN pe_label(pe) ELSE List(<<>>)
    IN  IF IsRaise(first) THEN first
        ELSE List(first.items
                  \o (IF near_52_week_high(obj) THEN <<NEAR_HIGH>> ELSE <<>>)
                  \o (IF near_52_week_low(obj) THEN <<NEAR_LOW>> ELSE <<>>)
                  \o <<NO_ALERTS>>)

\* variant: the P/E comparison is not guarded by the truth test on pe
get_valuation_assessment_unguarded(obj) ==
    LET pe == Get(obj.info, "trailingPE")
        first == pe_label(pe)
    IN  IF IsRaise(first) THEN first
        ELSE LET assessment ==
                    List(first.items
                         \o (IF near_52_week_high(obj) THEN <<NEAR_HIGH>> ELSE <<>>)
                         \o (IF near_52_week_low(obj) THEN <<NEAR_LOW>> ELSE <<>>))
             IN  IF Truthy(assessment) THEN assessment ELSE List(<<NO_ALERTS>>)

get_valuation_assessment(obj) ==
    LET pe == Get(obj.info, "trailingPE")
        first == IF Truthy(pe) THEN pe_label(pe) ELSE List(<<>>)
    IN  IF IsRaise(first) THEN first
        ELSE LET assessment ==
                    List(first.items
                         \o (IF near_52_week_high(obj) THEN <<NEAR_HIGH>> ELSE <<>>)
                         \o (IF near_52_week_low(obj) THEN <<NEAR_LOW>> ELSE <<>>))
             IN  IF Truthy(assessment) THEN assessment ELSE List(<<NO_ALERTS>>)

\* the value get_all_metrics returns, the instance it leaves and what it shows
get_all_metrics(obj, stock, mode) ==
    LET f == fetch_data(obj, stock, mode)
        o == f.obj
        va == get_valuation_assessment(o)
    IN  IF ~f.ok THEN [obj |-> o, ret |-> None, out |-> f.out]
        ELSE IF IsRaise(va) THEN [obj |-> o, ret |-> va, out |-> f.out]
        ELSE [obj |-> o,
              ret |-> [t |-> "dict",
                       ticker |-> o.ticker,
                       current_price |-> get_current_price(o),
                       week52_high |-> Get(o.info, "fiftyTwoWeekHigh"),
                       week52_low |-> Get(o.info, "fiftyTwoWeekLow"),
                       avg_daily_volume |-> Get(o.info, "averageVolume"),
                       weekly_volume |-> calculate_weekly_volume(o),
                       pe_ratio |-> Get(o.info, "trailingPE"),
                       valuation_assessment |-> va],
              out |-> f.out]

-----------------------------------------------------------------------------
(* Page *)

fetch_all_nse_tickers ==
    <<"WELCORP", "FORTIS", "BEL", "TDPOWERSYS", "ANANTRAJ", "TARIL", "KAYNES",
      "SOUTHBANK", "OLECTRA", "JWL", "PREMEXPLN", "FEDERALBNKAAVAS", "MANKIND",
      "BLS", "ARVINDFASN", "POLYMED", "REDTAPE", "SJS", "APTUS", "MEDANTA",
      "IDFCFIRSTB", "BIKAJI", "PNGJL", "BSOFT", "THOMASCOOK", "BAJFINANCE", "NH",
      "EMUDHRA", "SBFC", "VBL", "SHRIRAMFIN", "TATAELXSI", "BECTORFOOD",
      "ABCAPITAL", "KAJARIACER", "TATAMOTORS">>

\* f"{x:.2f}": a number is formatted, None raises TypeError
Format2f(x) == IF IsNone(x) THEN Raise("TypeError") ELSE [t |-> "str", fmt |-> ".2f", of |-> x.v]

\* the three st.metric lines, stopping at the first one whose format raises
RECURSIVE Metrics(_, _)
Metrics(data, rows) ==
    IF rows = <<>> THEN [raised |-> FALSE, out |-> <<>>]
    ELSE LET s == Format2f(data[rows[1][2]])
         IN  IF IsRaise(s) THEN [raised |-> TRUE, out |-> <<>>]
             ELSE LET rest == Metrics(data, Tail(rows))
                  IN  [raised |-> rest.raised,
                       out |-> <<[w |-> "metric", text |-> rows[1][1], value |-> s]>> \o rest.out]

Alert(alert) ==
    IF alert \in {OVERVALUED, NEAR_HIGH}
    THEN [w |-> "error", text |-> alert]
    ELSE [w |-> "success", text |-> alert]

display_results(data) ==
    LET head == <<[w |-> "subheader", text |-> data.ticker],
                  [w |-> "write", text |-> "Price Information"]>>
        m == Metrics(data, <<<<"Current Price", "current_price">>,
                             <<"52-Week High", "week52_high">>,
                             <<"52-Week Low", "week52_low">>>>)
        val == <<[w |-> "write", text |-> "Valuation Metrics"],
                 [w |-> "write", text |-> "P/E Ratio",
                  value |-> IF Truthy(data.pe_ratio) THEN data.pe_ratio ELSE [t |-> "str", fmt |-> "N/A", of |-> 0]],
                 [w |-> "write", text |-> IF Truthy(data.avg_daily_volume) THEN "Average Daily Volume" ELSE "N/A"],
                 [w |-> "write", text |-> IF Truthy(data.weekly_volume) THEN "Weekly Volume" ELSE "N/A"],
                 [w |-> "write", text |-> "Valuation Alerts"]>>
        alerts == [i \in 1..Len(data.valuation_assessment.items) |->
                      Alert(data.valuation_assessment.items[i])]
    IN  IF m.raised
        THEN [end |-> "TypeError", out |-> head \o m.out]
        ELSE [end |-> "rendered", out |-> head \o m.out \o val \o alerts]

\* one run of main for the selected ticker
main(selected_ticker, stock, mode) ==
    LET analyzer == StockDataOperator(selected_ticker)
        g == get_all_metrics(analyzer, stock, mode)
        top == <<[w |-> "write", text |-> selected_ticker]>> \o g.out
    IN  IF IsRaise(g.ret)
        THEN [obj |-> g.obj, ret |-> g.ret, screen |-> [end |-> g.ret.exc, out |-> top]]
        ELSE IF Truthy(g.ret)
        THEN LET d == display_results(g.ret)
             IN  [obj |-> g.obj, ret |-> g.ret, screen |-> [end |-> d.end, out |-> top \o d.out]]
        ELSE [obj |-> g.obj, ret |-> g.ret,
              screen |-> [end |-> "fetch_error",
                          out |-> top \o <<[w |-> "error", text |-> "Could not retrieve data"]>>]]

-----------------------------------------------------------------------------
(* State machine *)

Blank == [end |-> "none", out |-> <<>>]

Init ==
    /\ market \in [info : Infos, history : Histories]
    /\ self = None
    /\ ret = NotCalled
    /\ screen = Blank
    /\ last = [op |-> "none", mode |-> "none", before |-> "none"]
    /\ calls = 0

\* a caller constructs an instance
Construct ==
    \E symbol \in CallerSymbols :
        /\ self' = StockDataOperator(symbol)
        /\ ret' = NotCalled
        /\ screen' = Blank
        /\ last' = [op |-> "construct", mode |-> "none", before |-> "none"]
        /\ calls' = 0
        /\ UNCHANGED market

\* a caller invokes get_all_metrics on the instance it holds
GetAllMetrics ==
    \E mode \in FetchModes :
        /\ ~IsNone(self)
        /\ calls < MaxCalls
        /\ LET g == get_all_metrics(self, market, mode)
           IN  /\ self' = g.obj
               /\ ret' = g.ret
               /\ screen' = [end |-> IF IsRaise(g.ret) THEN g.ret.exc ELSE "returned", out |-> g.out]
        /\ last' = [op |-> "get_all_metrics", mode |-> mode, before |-> last.mode]
        /\ calls' = calls + 1
        /\ UNCHANGED market

\* the page script runs for a selection
Main ==
    \E i \in Selectable, mode \in FetchModes :
        /\ LET r == main(fetch_all_nse_tickers[i], market, mode)
           IN  /\ self' = r.obj
               /\ ret' = r.ret
               /\ screen' = r.screen
        /\ last' = [op |-> "main", mode |-> mode, before |-> "none"]
        /\ calls' = 1
        /\ UNCHANGED market

Next == Construct \/ GetAllMetrics \/ Main

Spec == Init /\ [][Next]_vars

-----------------------------------------------------------------------------
(* Properties *)

Info == market.info
Derived == ret.t = "dict"
Labels == {ret.valuation_assessment.items[i] : i \in 1..Len(ret.valuation_assessment.items)}
PELabels == {UNDERVALUED, OVERVALUED, FAIR}

\* C1: whenever currentPrice is present (0 included), the derived current price
\* is that currentPrice, whatever regularMarketPreviousClose is.
C1_CurrentPriceUnchanged ==
    (Derived /\ ~IsNone(Info.currentPrice)) => ret.current_price = Info.currentPrice

\* C2: whenever currentPrice is absent, the derivation does not raise and the
\* derived current price is regularMarketPreviousClose when that is present and
\* None when it is absent too.
C2_FallsBackToPreviousClose ==
    (last.mode = "ok" /\ IsNone(Info.currentPrice)) =>
        /\ Derived
        /\ ret.current_price = Info.regularMarketPreviousClose

C2_Witness ==
    /\ Derived
    /\ IsNone(Info.currentPrice)
    /\ Info.regularMarketPreviousClose = Num(0)
    /\ ret.current_price = Num(0)

RECURSIVE PrefixTotal(_, _)
PrefixTotal(h, n) == IF n = 0 THEN 0 ELSE PrefixTotal(h, n - 1) + h[n]

\* C3: the weekly volume is the sum of the per-point volumes when the history is
\* non-empty (0 when they are all 0) and None when it is empty; on an instance
\* whose history was never fetched it is None as well.
C3_WeeklyVolume ==
    /\ Derived =>
           ret.weekly_volume =
               IF market.history = <<>> THEN None
               ELSE Num(PrefixTotal(market.history, Len(market.history)))
    /\ (~IsNone(self) /\ IsNone(self.historical_data)) =>
           calculate_weekly_volume(self) = None

C3_Witness ==
    /\ Derived
    /\ market.history = <<0, 0>>
    /\ ret.weekly_volume = Num(0)

\* C4: the assessment holds exactly one P/E label when trailingPE is present
\* (0 and negatives included) and none when it is absent; the label is
\* Undervalued below 15, Overvalued above 35, Fair Valuation from 15 to 35.
C4_PELabel ==
    Derived =>
        LET pe == Info.trailingPE
        IN  Labels \cap PELabels =
                IF IsNone(pe) THEN {}
                ELSE IF pe.v < 15 THEN {UNDERVALUED}
                ELSE IF pe.v > 35 THEN {OVERVALUED}
                ELSE {FAIR}

\* C5: the assessment holds "Near 52-week High" exactly when the derived current
\* price and fiftyTwoWeekHigh are both present and current >= high * 0.95.
C5_NearHigh ==
    Derived =>
        (NEAR_HIGH \in Labels <=>
            /\ ~IsNone(ret.current_price)
            /\ ~IsNone(Info.fiftyTwoWeekHigh)
            /\ ret.current_price.v * 100 >= Info.fiftyTwoWeekHigh.v * 95)

\* C6: the assessment holds "Near 52-week Low" exactly when the derived current
\* price and fiftyTwoWeekLow are both present and current <= low * 1.05.
C6_NearLow ==
    Derived =>
        (NEAR_LOW \in Labels <=>
            /\ ~IsNone(ret.current_price)
            /\ ~IsNone(Info.fiftyTwoWeekLow)
            /\ ret.current_price.v * 100 <= Info.fiftyTwoWeekLow.v * 105)

\* C7: the assessment is never empty; it is exactly <<"No significant alerts">>
\* if and only if neither the P/E rule nor the near-high nor the near-low rule
\* emitted a label, and the fallback label never stands beside another label.
C7_Fallback ==
    Derived =>
        LET a == ret.valuation_assessment.items
            emitted == \/ Truthy(Get(self.info, "trailingPE"))
                       \/ near_52_week_high(self)
                       \/ near_52_week_low(self)
        IN  /\ Len(a) >= 1
            /\ (a = <<NO_ALERTS>>) <=> ~emitted
            /\ emitted <=> Labels \cap (PELabels \cup {NEAR_HIGH, NEAR_LOW}) # {}
            /\ NO_ALERTS \in Labels => a = <<NO_ALERTS>>

C7_Witness ==
    /\ Derived
    /\ Info.trailingPE = Num(0)
    /\ Info.currentPrice = Num(19)
    /\ Info.fiftyTwoWeekHigh = None
    /\ ret.valuation_assessment.items = <<NO_ALERTS>>

RecordFields ==
    {"t", "ticker", "current_price", "week52_high", "week52_low",
     "avg_daily_volume", "weekly_volume", "pe_ratio", "valuation_assessment"}

\* C8: get_all_metrics returns None exactly when the info call or the history
\* call raised; when the fetch succeeded it returns a record with all eight
\* fields, for every combination of absent fields and for an empty history.
C8_NoneOnlyOnFetchFailure ==
    last.op \in {"get_all_metrics", "main"} =>
        /\ IsNone(ret) <=> last.mode # "ok"
        /\ last.mode = "ok" => (Derived /\ DOMAIN ret = RecordFields)

C8_Witness ==
    /\ last.op = "get_all_metrics"
    /\ last.mode = "ok"
    /\ \A f \in InfoFields : IsNone(Info[f])
    /\ market.history = <<>>
    /\ Derived
    /\ IsNone(ret.current_price)
    /\ IsNone(ret.weekly_volume)

\* C9: a second get_all_metrics call on the same instance, the provider
\* answering both calls with the same info and history, returns a record equal
\* to the first call's.
C9_Idempotent ==
    [][(/\ last'.op = "get_all_metrics"
        /\ calls >= 1
        /\ calls' = calls + 1
        /\ last.mode = "ok"
        /\ last'.mode = "ok") => ret' = ret]_vars

C9_Witness ==
    /\ last.op = "get_all_metrics"
    /\ calls = 2
    /\ last.before = "ok"
    /\ last.mode = "ok"
    /\ Derived
    /\ market.history = <<3, 3>>
    /\ ret.weekly_volume = Num(6)

\* C10: every run of main ends with the record fully rendered or with the
\* fetch-failure message; display_results never raises.
C10_CycleEndsRenderedOrFetchError ==
    last.op = "main" => screen.end \in {"rendered", "fetch_error"}

====
